---- MODULE Spec2Model ----
(***************************************************************************)
(* Alarm ingestion and enrichment pipeline of WebScoketToApi.               *)
(*                                                                         *)
(* The repository holds the pipeline twice: the monolithic src/main.py and *)
(* the modular package src/App (ws.py, services.py, platform.py, state.py, *)
(* config.py, routes.py).  The variable `variant` says which of the two is *)
(* running; the listener is the same code in both, push_to_soap differs.   *)
(*                                                                         *)
(* The stream is a sequence of one-character tokens: "#" is the framing    *)
(* delimiter, " " is whitespace, "x" is text that is not JSON, and every   *)
(* other token stands for one complete JSON object (see Events).           *)
(***************************************************************************)
EXTENDS Integers, Sequences, FiniteSets, TLC

VARIABLES
    variant,            \* "App" or "main": which copy of the pipeline runs
    feed,               \* environment: the chunks the endpoints may deliver
    dateTime,           \* environment: the DateTime text the streamed events carry
    user_config,        \* STATE.user_config
    transfer_endpoints, \* STATE.transfer_endpoints
    platformTransfer,   \* environment: the Transfer list the platform serves
    vehicle_data,       \* STATE.vehicle_data
    alarm_types,        \* STATE.alarm_types
    geofences,          \* STATE.geofences (Unset until first assigned)
    routes,             \* STATE.routes    (Unset until first assigned)
    pc,                 \* per listener task: where run_ws_endpoint stands
    wsOpen,             \* per listener: ws.open of the current connection
    hb,                 \* per listener: state of the heartbeat sub-task
    hbSent,             \* per listener: keepalive frames sent on the connection
    buffer,             \* per listener: the local receive buffer
    data,               \* per listener: the record handed to push_to_soap
    lk,                 \* per listener: the four awaitables of asyncio.gather
    payload,            \* per listener: the record of the last Create call
    loopHeld,           \* listener running a blocking call on the loop thread (0: none)
    orphans,            \* per kind: refreshes still running after their gather failed
    req,                \* lookup API requests (routes.py) in flight or answered
    rx,                 \* history: the chunks of the current connection, concatenated
    log,                \* history: the segments of the current connection and their outcome
    consulted,          \* history: the lookups push_to_soap called for the current record
    sinkCalls,          \* history: per listener, Create calls made on the current connection
    sent,               \* history: per listener, the frames sent on the current connection
    boot,               \* where the bootstrap task stands
    token,              \* STATE.token
    ws_tasks,           \* STATE.ws_tasks: the listener tasks it holds
    stopped             \* history: on_shutdown has run

stateVars == <<user_config, transfer_endpoints, vehicle_data, alarm_types, geofences, routes>>
taskVars  == <<pc, wsOpen, hb, hbSent, buffer, data, lk, payload, loopHeld>>
histVars  == <<rx, log, consulted, sinkCalls>>
bootVars  == <<boot, token, ws_tasks, stopped>>
vars == <<sent, dateTime, variant, feed, platformTransfer, stateVars, taskVars, orphans, req, histVars,
          bootVars>>

(***************************************************************************)
(* Bounds of the model.                                                    *)
(***************************************************************************)
MaxEndpoints == 2
MaxStream == 5
MaxChunk == 3
MaxBeats == 1
MaxOrphans == 1
MaxRequests == 2

NoneV == "None"
Unset == << [Unset |-> TRUE] >>
NoData == "none"
ParseFail == "parse_fail"

(***************************************************************************)
(* Configuration.                                                          *)
(***************************************************************************)
ALLOWED_ALARMS == {"17", "3", "8"}

(***************************************************************************)
(* The JSON objects of the stream, by token.                               *)
(***************************************************************************)
Events ==
    [ a |-> [AlarmType |-> "3",   SystemNo |-> "S1", Latitude |-> NoneV, Longitude |-> NoneV,
             RelatedTable |-> NoneV,      RelatedID |-> NoneV],
      d |-> [AlarmType |-> "5",   SystemNo |-> "S1", Latitude |-> "6.5", Longitude |-> "3.3",
             RelatedTable |-> "SafeZone", RelatedID |-> "R1"],
      r |-> [AlarmType |-> "17",  SystemNo |-> "S1", Latitude |-> NoneV, Longitude |-> NoneV,
             RelatedTable |-> "Route",    RelatedID |-> "R1"],
      g |-> [AlarmType |-> "8",   SystemNo |-> "S1", Latitude |-> "6.5", Longitude |-> "3.3",
             RelatedTable |-> "SafeZone", RelatedID |-> "R1"],
      t |-> [AlarmType |-> " 3 ", SystemNo |-> "S9", Latitude |-> NoneV, Longitude |-> NoneV,
             RelatedTable |-> "Route",    RelatedID |-> "R1"],
      n |-> [AlarmType |-> "3",   SystemNo |-> NoneV, Latitude |-> "6.5", Longitude |-> "3.3",
             RelatedTable |-> NoneV,      RelatedID |-> NoneV],
      e |-> [AlarmType |-> "8",   SystemNo |-> "",    Latitude |-> "6.5", Longitude |-> NoneV,
             RelatedTable |-> NoneV,      RelatedID |-> NoneV],
      q |-> [AlarmType |-> "3",   SystemNo |-> "S1", Latitude |-> "abc", Longitude |-> "3.3",
             RelatedTable |-> NoneV,      RelatedID |-> NoneV] ]

EventTokens == DOMAIN Events

(***************************************************************************)
(* The datasets the platform serves.                                       *)
(***************************************************************************)
PlatformTrackers   == << [SystemNo |-> "S1", Name |-> "Truck1"] >>
PlatformAlarmTypes == << [AlarmTypeID |-> "3",  Content |-> "Yaw Alarm"],
                         [AlarmTypeID |-> "17", Content |-> "Engine Start Alarm"],
                         [AlarmTypeID |-> "8",  Content |-> "SOS Alarm"] >>
PlatformSafeZones  == << [ZoneID |-> "R1", ZoneName |-> "Depot"] >>
PlatformRoutes     == << [RouteID |-> "R1", RouteName |-> "North"] >>

(***************************************************************************)
(* Text helpers: str.strip() and str.lower() on the values of the model.   *)
(***************************************************************************)
RECURSIVE LStrip(_)
LStrip(s) == IF s /= <<>> /\ Head(s) = " " THEN LStrip(Tail(s)) ELSE s

RECURSIVE RStrip(_)
RStrip(s) == IF s /= <<>> /\ s[Len(s)] = " " THEN RStrip(SubSeq(s, 1, Len(s) - 1)) ELSE s

Strip(s) == RStrip(LStrip(s))

StripStr(v) == CASE v = " 3 " -> "3" [] OTHER -> v

Lower(v) ==
    CASE v = "R1" -> "r1" [] v = "S1" -> "s1" [] v = "S9" -> "s9" [] v = "Z9" -> "z9" [] OTHER -> v

(***************************************************************************)
(* Framing: buffer.split("#", 1) and the blank test of the receive loop.    *)
(***************************************************************************)
HasHash(buf) == \E i \in 1..Len(buf) : buf[i] = "#"

FirstHash(buf) == CHOOSE i \in 1..Len(buf) : buf[i] = "#" /\ \A j \in 1..(i - 1) : buf[j] /= "#"

SplitHashAtLast(buf) ==
    LET i == CHOOSE k \in 1..Len(buf) : buf[k] = "#" /\ \A j \in (k + 1)..Len(buf) : buf[j] /= "#"
    IN  <<SubSeq(buf, 1, i - 1), SubSeq(buf, i + 1, Len(buf))>>

SplitHash(buf) ==
    LET i == FirstHash(buf)
    IN  <<SubSeq(buf, 1, i - 1), SubSeq(buf, i + 1, Len(buf))>>

IsBlank(chunk) == Strip(chunk) = <<>>

(***************************************************************************)
(* json.loads(chunk): surrounding whitespace is accepted, the text must be *)
(* exactly one JSON object.                                                *)
(***************************************************************************)
JsonLoads(chunk) ==
    LET s == Strip(chunk)
    IN  IF Len(s) = 1 /\ s[1] \in EventTokens THEN s[1] ELSE ParseFail

AlarmTypeOf(d) == StripStr(Events[d].AlarmType)

IsAllowedAny(alarm_type) == TRUE

IsAllowed(alarm_type) == alarm_type \in ALLOWED_ALARMS

(***************************************************************************)
(* What the code does with one extracted, non-blank segment, and whether   *)
(* an exception leaves the inner try of the receive loop.                  *)
(***************************************************************************)
SegmentStepParseRaises(chunk) ==
    LET d == JsonLoads(chunk)
    IN  IF d = ParseFail THEN [outcome |-> "escaped", data |-> NoData]
        ELSE IF IsAllowed(AlarmTypeOf(d)) THEN [outcome |-> "push", data |-> d]
        ELSE [outcome |-> "filtered", data |-> NoData]

SegmentStep(chunk) ==
    LET d == JsonLoads(chunk)
    IN  IF d = ParseFail THEN [outcome |-> "parse_error", data |-> NoData]
        ELSE IF IsAllowed(AlarmTypeOf(d)) THEN [outcome |-> "push", data |-> d]
        ELSE [outcome |-> "filtered", data |-> NoData]

(***************************************************************************)
(* The while loop of the receive handler, run from `buf` until it reaches  *)
(* the await of push_to_soap, runs out of delimiters, or an exception      *)
(* leaves it.  `acc` collects the segments it finished on the way.         *)
(***************************************************************************)
RECURSIVE DrainNoAwait(_, _)
DrainNoAwait(buf, acc) ==
    IF ~HasHash(buf)
    THEN [buffer |-> buf, logged |-> acc, data |-> NoData, seg |-> <<>>, escaped |-> FALSE]
    ELSE LET sp    == SplitHash(buf)
             chunk == sp[1]
             rest  == sp[2]
             step  == SegmentStep(chunk)
         IN  IF IsBlank(chunk) THEN DrainNoAwait(rest, acc)
             ELSE IF step.outcome = "push"
             THEN [DrainNoAwait(rest, acc) EXCEPT !.data = step.data, !.seg = chunk]
             ELSE DrainNoAwait(rest, Append(acc, [seg |-> chunk, outcome |-> step.outcome]))

RECURSIVE Drain(_, _)
Drain(buf, acc) ==
    IF ~HasHash(buf)
    THEN [buffer |-> buf, logged |-> acc, data |-> NoData, seg |-> <<>>, escaped |-> FALSE]
    ELSE LET sp    == SplitHash(buf)
             chunk == sp[1]
             rest  == sp[2]
             step  == SegmentStep(chunk)
         IN  IF IsBlank(chunk) THEN Drain(rest, acc)
             ELSE IF step.outcome = "push"
             THEN [buffer |-> rest, logged |-> acc, data |-> step.data, seg |-> chunk,
                   escaped |-> FALSE]
             ELSE IF step.outcome = "escaped"
             THEN [buffer |-> rest, logged |-> Append(acc, [seg |-> chunk, outcome |-> "escaped"]),
                   data |-> NoData, seg |-> <<>>, escaped |-> TRUE]
             ELSE Drain(rest, Append(acc, [seg |-> chunk, outcome |-> step.outcome]))

(***************************************************************************)
(* Reference lookups (services.py): the scan of a mapping.  `pass` is 1    *)
(* for the scan before the refresh and 2 for the scan after it.            *)
(***************************************************************************)
RefKinds == {"vehicle", "alarm", "geofence", "route"}

Mapping(kind) ==
    CASE kind = "vehicle"  -> vehicle_data
      [] kind = "alarm"    -> alarm_types
      [] kind = "geofence" -> geofences
      [] kind = "route"    -> routes

Dataset(kind) ==
    CASE kind = "vehicle"  -> PlatformTrackers
      [] kind = "alarm"    -> PlatformAlarmTypes
      [] kind = "geofence" -> PlatformSafeZones
      [] kind = "route"    -> PlatformRoutes

LookupKey(kind, key) ==
    CASE kind = "geofence" -> Lower(key)
      [] kind = "route"    -> Lower(key)
      [] OTHER             -> key

EntryKey(kind, e) ==
    CASE kind = "vehicle"  -> e.SystemNo
      [] kind = "alarm"    -> e.AlarmTypeID
      [] kind = "geofence" -> Lower(e.ZoneID)
      [] kind = "route"    -> e.RouteID

RenameHit(name) == IF name = "Yaw Alarm" THEN "Deviation Alarm" ELSE name

RenameMiss(name) ==
    IF name = "Yaw Alarm" THEN "Deviation Alarm"
    ELSE IF name = "Engine Start Alarm" THEN "Movement Alarm"
    ELSE name

EntryValue(kind, e, pass) ==
    CASE kind = "vehicle"  -> e.Name
      [] kind = "alarm"    -> IF pass = 1 THEN RenameHit(e.Content) ELSE RenameMiss(e.Content)
      [] kind = "geofence" -> e.ZoneName
      [] kind = "route"    -> e.RouteName

Scan(kind, m, key, pass) ==
    LET k    == LookupKey(kind, key)
        hits == {i \in 1..Len(m) : EntryKey(kind, m[i]) = k}
    IN  IF hits = {} THEN [found |-> FALSE, val |-> NoneV]
        ELSE LET i == CHOOSE j \in hits : \A h \in hits : j <= h
             IN  [found |-> TRUE, val |-> EntryValue(kind, m[i], pass)]

(***************************************************************************)
(* A lookup up to its first await: the attribute read, the first scan and, *)
(* on a miss, the start of the refresh.  "raised" is the AttributeError of *)
(* reading a mapping that State never declared and nothing assigned yet.   *)
(***************************************************************************)
FirstStep(kind, key) ==
    IF Mapping(kind) = Unset THEN [st |-> "raised", val |-> NoneV]
    ELSE LET s == Scan(kind, Mapping(kind), key, 1)
         IN  IF s.found THEN [st |-> "done", val |-> s.val]
             ELSE [st |-> "fetch", val |-> NoneV]

(***************************************************************************)
(* The assignment a successful refresh of `kind` makes (platform.py).      *)
(***************************************************************************)
Refreshed(kind) ==
    /\ vehicle_data' = IF kind = "vehicle" THEN PlatformTrackers ELSE vehicle_data
    /\ transfer_endpoints' = IF kind = "vehicle" THEN platformTransfer ELSE transfer_endpoints
    /\ alarm_types' = IF kind = "alarm" THEN PlatformAlarmTypes ELSE alarm_types
    /\ geofences' = IF kind = "geofence" THEN PlatformSafeZones ELSE geofences
    /\ routes' = IF kind = "route" THEN PlatformRoutes ELSE routes
    /\ UNCHANGED user_config

(***************************************************************************)
(* A refresh that fails: platform_submit raises on a reply that is not     *)
(* JSON and each fetch raises on a State other than "0", both before the   *)
(* assignment, so nothing is assigned.                                     *)
(***************************************************************************)
RefreshFailedAssignsEmpty(kind) ==
    /\ vehicle_data' = IF kind = "vehicle" THEN <<>> ELSE vehicle_data
    /\ alarm_types' = IF kind = "alarm" THEN <<>> ELSE alarm_types
    /\ geofences' = IF kind = "geofence" THEN <<>> ELSE geofences
    /\ routes' = IF kind = "route" THEN <<>> ELSE routes
    /\ UNCHANGED <<user_config, transfer_endpoints>>

RefreshFailed(kind) == UNCHANGED stateVars

(***************************************************************************)
(* push_to_soap of services.py: which awaitables asyncio.gather is given.  *)
(***************************************************************************)
Truthy(v) == v /= NoneV /\ v /= ""

RelatedKindSafeZoneFirst(d) ==
    LET ev == Events[d]
    IN  IF ev.RelatedTable = "SafeZone" /\ Truthy(ev.RelatedID) THEN "geofence"
        ELSE IF ev.RelatedTable = "Route" /\ Truthy(ev.RelatedID) THEN "geofence"
        ELSE "none"

RelatedKind(d) ==
    LET ev == Events[d]
        related_table == IF Truthy(ev.RelatedTable) THEN StripStr(ev.RelatedTable) ELSE ""
    IN  IF AlarmTypeOf(d) = "17" /\ related_table = "Route" /\ Truthy(ev.RelatedID) THEN "route"
        ELSE IF related_table = "SafeZone" /\ Truthy(ev.RelatedID) THEN "geofence"
        ELSE "none"

Slots == {"vehicle", "location", "alarm", "related"}

Idle == [kind |-> "none", key |-> NoneV, st |-> "idle", val |-> NoneV]

NoLookups == [s \in Slots |-> Idle]

Child(kind, key) ==
    LET f == FirstStep(kind, key)
    IN  [kind |-> kind, key |-> key, st |-> f.st, val |-> f.val]

GatherChildren(d) ==
    LET ev == Events[d]
    IN  [s \in Slots |->
           CASE s = "vehicle"  -> Child("vehicle", ev.SystemNo)
             [] s = "location" -> IF Truthy(ev.Latitude) /\ Truthy(ev.Longitude)
                                  THEN [kind |-> "location", key |-> NoneV, st |-> "fetch",
                                        val |-> NoneV]
                                  ELSE Idle
             [] s = "alarm"    -> Child("alarm", AlarmTypeOf(d))
             [] s = "related"  -> IF RelatedKind(d) = "none" THEN Idle
                                  ELSE Child(RelatedKind(d), ev.RelatedID)]

Raised(ch)   == \E s \in Slots : ch[s].st = "raised"
Fetching(ch) == \E s \in Slots : ch[s].st = "fetch"

Called(ch) == {ch[s].kind : s \in {t \in Slots : ch[t].st /= "idle"}}

(***************************************************************************)
(* The outbound record.                                                    *)
(***************************************************************************)
(* Decimal(str(val)) of to_decimal: the decimal a numeric text stands for;  *)
(* any other text raises inside the try and gives None.                    *)
ToDecimal(v) ==
    IF v = NoneV \/ v = "" THEN NoneV
    ELSE CASE v = "6.5" -> "Decimal('6.5')"
           [] v = "3.3" -> "Decimal('3.3')"
           [] OTHER     -> NoneV

(* float(lat), float(lon) of get_current_location succeed.                 *)
IsNumeric(v) == v \in {"6.5", "3.3"}

(***************************************************************************)
(* DateTime texts and to_xsd_datetime.  A text is held by its parts: the   *)
(* date, the separator, the time of day and what follows it; the empty     *)
(* string has all parts empty.                                             *)
(***************************************************************************)
NoStamp == [kind |-> "none"]

Text(date, sep, time, tail) ==
    [kind |-> "str", date |-> date, sep |-> sep, time |-> time, tail |-> tail]

Instant(date, time) == [kind |-> "datetime", date |-> date, time |-> time]

ValidDates == {"2025-08-20"}

ValidTimes == {"14:58:28"}

DateTimes ==
    {NoStamp, Text("", "", "", ""), Text("garbage", "", "", "")}
        \cup {Text(d, sp, t, z) : d \in {"2025-08-20", "2025-13-40"}, sp \in {" ", "T"},
                                  t \in {"14:58:28", "25:61:61"}, z \in {"", "Z"}}

PlainStamp == Text("2025-08-20", " ", "14:58:28", "")

Falsy(val) == val.kind = "none" \/ val = Text("", "", "", "")

\* datetime.fromisoformat(val.replace("Z", "")); an exception gives None.
FromIsoFormat(val) ==
    IF val.date \in ValidDates /\ val.sep = "T" /\ val.time \in ValidTimes
    THEN Instant(val.date, val.time) ELSE NoStamp

\* datetime.strptime(val, "%Y-%m-%d %H:%M:%S"); an exception gives None.
Strptime(val) ==
    IF val.date \in ValidDates /\ val.sep = " " /\ val.time \in ValidTimes /\ val.tail = ""
    THEN Instant(val.date, val.time) ELSE NoStamp

ToXsdDatetime(val) ==
    IF Falsy(val) THEN NoStamp
    ELSE IF val.sep = "T" THEN FromIsoFormat(val)
    ELSE Strptime(val)

NoPayload == [ev |-> NoData, Latitude |-> NoneV, Longitude |-> NoneV, Vehicle_No |-> NoneV,
              Current_Location |-> NoneV, Geo_fence_Name |-> NoneV, Alarm_Name |-> NoneV,
              Date_x0026_Time |-> NoStamp]

AppPayload(d, ch) ==
    [ev |-> d,
     Latitude  |-> ToDecimal(Events[d].Latitude),
     Longitude |-> ToDecimal(Events[d].Longitude),
     Vehicle_No       |-> ch["vehicle"].val,
     Current_Location |-> ch["location"].val,
     Geo_fence_Name   |-> ch["related"].val,
     Alarm_Name       |-> ch["alarm"].val,
     Date_x0026_Time  |-> dateTime]

MainPayload(d) ==
    [ev |-> d,
     Latitude  |-> ToDecimal(Events[d].Longitude),
     Longitude |-> ToDecimal(Events[d].Latitude),
     Vehicle_No       |-> "Absent",
     Current_Location |-> "Absent",
     Geo_fence_Name   |-> "Absent",
     Alarm_Name       |-> "Absent",
     Date_x0026_Time  |-> ToXsdDatetime(dateTime)]

(***************************************************************************)
(* Where the blocking Create call runs: loop.run_in_executor(None, ...).   *)
(***************************************************************************)
CreateContextInline == "loop"

CreateContext == "executor"

(***************************************************************************)
(* Listener tasks.                                                         *)
(***************************************************************************)
Listeners == DOMAIN pc

Streaming == {"recv", "push", "gather", "create"}

Ended == {"returned", "raised", "cancelled"}

NoCurrent == [d |-> NoData, seg |-> <<>>]

EndpointValid(ep) == ep.WssDomainName /= NoneV /\ ep.WssOutputPort /= NoneV

CancelHbNever(l) == hb

CancelHb(l) == [hb EXCEPT ![l] = IF @ = "live" THEN "cancelled" ELSE @]

Bump(orph, ch) ==
    [k \in RefKinds |-> orph[k] + Cardinality({s \in Slots : ch[s].st = "fetch" /\ ch[s].kind = k})]

(***************************************************************************)
(* The receive loop goes on from buffer `buf` after the segments in `lg`   *)
(* were finished: it drains to the next await.  In main.py push_to_soap    *)
(* reaches its executor call without an await, in services.py it awaits    *)
(* asyncio.gather first.  `held` is the loop thread's holder and `cons`    *)
(* the lookups called, both as the step's earlier part left them.          *)
(***************************************************************************)
Continue(l, buf, lg, held, cons) ==
    LET dr      == Drain(buf, <<>>)
        pushing == dr.data /= NoData
        direct  == pushing /\ variant = "main"
    IN  /\ buffer' = [buffer EXCEPT ![l] = dr.buffer]
        /\ log' = [log EXCEPT ![l] = lg \o dr.logged]
        /\ data' = [data EXCEPT ![l] = [d |-> dr.data, seg |-> dr.seg]]
        /\ lk' = [lk EXCEPT ![l] = NoLookups]
        /\ pc' = [pc EXCEPT ![l] = IF dr.escaped THEN "backoff"
                                   ELSE IF direct THEN "create"
                                   ELSE IF pushing THEN "push"
                                   ELSE "recv"]
        /\ hb' = IF dr.escaped THEN CancelHb(l) ELSE hb
        /\ wsOpen' = IF dr.escaped THEN [wsOpen EXCEPT ![l] = "none"] ELSE wsOpen
        /\ payload' = IF direct THEN [payload EXCEPT ![l] = MainPayload(dr.data)] ELSE payload
        /\ sinkCalls' = IF direct THEN [sinkCalls EXCEPT ![l] = @ + 1] ELSE sinkCalls
        /\ consulted' = IF direct THEN [cons EXCEPT ![l] = [d |-> dr.data, kinds |-> {}]]
                        ELSE cons
        /\ loopHeld' = IF direct /\ CreateContext /= "executor" THEN l ELSE held

(***************************************************************************)
(* asyncio.gather returned its four results: the record is assembled and   *)
(* Create is handed to the executor.                                       *)
(***************************************************************************)
SubmitCreate(l, ch) ==
    /\ pc' = [pc EXCEPT ![l] = "create"]
    /\ lk' = [lk EXCEPT ![l] = ch]
    /\ payload' = [payload EXCEPT ![l] = AppPayload(data[l].d, ch)]
    /\ sinkCalls' = [sinkCalls EXCEPT ![l] = @ + 1]
    /\ loopHeld' = IF CreateContext /= "executor" THEN l ELSE loopHeld
    /\ UNCHANGED <<buffer, data, log, hb, wsOpen>>

(***************************************************************************)
(* An exception left push_to_soap: the except clause of the receive loop   *)
(* logs it and the loop goes on.  The refreshes still running go on alone. *)
(***************************************************************************)
PushRaised(l, ch, cons) ==
    /\ \A k \in RefKinds : Bump(orphans, ch)[k] <= MaxOrphans
    /\ orphans' = Bump(orphans, ch)
    /\ Continue(l, buffer[l], Append(log[l], [seg |-> data[l].seg, outcome |-> "enrich_error"]),
                loopHeld, cons)

(***************************************************************************)
(* The buffer a new connection starts with: buffer = "" inside the loop.   *)
(***************************************************************************)
KeptBuffer(old) == old

FreshBuffer(old) == <<>>

(***************************************************************************)
(* The frames a listener sends: the credential of build_credential and the *)
(* keepalive of heartbeat(), each known here by its SignalName.  A new     *)
(* connection sends the credential before anything else: ws.send(cred) is  *)
(* the first statement inside `async with websockets.connect(...)`, inside *)
(* the while loop.                                                         *)
(***************************************************************************)
AuthFrame == [SignalName |-> "00"]

KeepaliveFrame == [SignalName |-> "99"]

ConnectFramesFirstOnly(l) == IF hb[l] = "none" THEN <<AuthFrame>> ELSE <<>>

ConnectFrames(l) == <<AuthFrame>>

Start(l) ==
    /\ pc[l] = "start"
    /\ loopHeld = 0
    /\ pc' = [pc EXCEPT ![l] =
                IF user_config = NoneV THEN "raised"
                ELSE IF variant = "main" /\ ~EndpointValid(transfer_endpoints[l]) THEN "returned"
                ELSE "connecting"]
    /\ UNCHANGED <<bootVars, sent, dateTime, variant, feed, platformTransfer, stateVars, wsOpen, hb, hbSent, buffer, data,
                   lk, payload, loopHeld, orphans, req, histVars>>

Connect(l, outcome) ==
    /\ pc[l] = "connecting"
    /\ loopHeld = 0
    /\ outcome \in {"ok", "refused", "send_failed"}
    /\ ~EndpointValid(transfer_endpoints[l]) => outcome = "refused"
    /\ IF outcome = "ok"
       THEN /\ pc' = [pc EXCEPT ![l] = "recv"]
            /\ wsOpen' = [wsOpen EXCEPT ![l] = "open"]
            /\ hb' = [hb EXCEPT ![l] = "live"]
            /\ hbSent' = [hbSent EXCEPT ![l] = 0]
            /\ buffer' = [buffer EXCEPT ![l] = FreshBuffer(@)]
            /\ rx' = [rx EXCEPT ![l] = <<>>]
            /\ log' = [log EXCEPT ![l] = <<>>]
            /\ sinkCalls' = [sinkCalls EXCEPT ![l] = 0]
            /\ sent' = [sent EXCEPT ![l] = ConnectFrames(l)]
       ELSE /\ pc' = [pc EXCEPT ![l] = "backoff"]
            /\ UNCHANGED <<wsOpen, hb, hbSent, buffer, rx, log, sinkCalls, sent>>
    /\ UNCHANGED <<bootVars, dateTime, variant, feed, platformTransfer, stateVars, data, lk, payload, loopHeld,
                   orphans, req, consulted>>

Receive(l, chunk) ==
    /\ pc[l] = "recv"
    /\ loopHeld = 0
    /\ wsOpen[l] = "open"
    /\ chunk \in feed
    /\ Len(rx[l]) + Len(chunk) <= MaxStream
    /\ rx' = [rx EXCEPT ![l] = @ \o chunk]
    /\ Continue(l, buffer[l] \o chunk, log[l], loopHeld, consulted)
    /\ UNCHANGED <<bootVars, sent, dateTime, variant, feed, platformTransfer, stateVars, hbSent, orphans, req>>

GatherStart(l) ==
    /\ pc[l] = "push"
    /\ loopHeld = 0
    /\ LET ch   == GatherChildren(data[l].d)
           cons == [consulted EXCEPT ![l] = [d |-> data[l].d, kinds |-> Called(ch)]]
       IN  IF ~IsAllowed(AlarmTypeOf(data[l].d))
           THEN /\ Continue(l, buffer[l], Append(log[l], [seg |-> data[l].seg,
                                                          outcome |-> "not_pushed"]),
                            loopHeld, consulted)
                /\ UNCHANGED orphans
           ELSE IF Raised(ch)
           THEN PushRaised(l, ch, cons)
           ELSE IF Fetching(ch)
           THEN /\ pc' = [pc EXCEPT ![l] = "gather"]
                /\ lk' = [lk EXCEPT ![l] = ch]
                /\ consulted' = cons
                /\ UNCHANGED <<buffer, data, log, hb, wsOpen, payload, sinkCalls, loopHeld,
                               orphans>>
           ELSE /\ SubmitCreate(l, ch)
                /\ consulted' = cons
                /\ UNCHANGED orphans
    /\ UNCHANGED <<bootVars, sent, dateTime, variant, feed, platformTransfer, stateVars, hbSent, req, rx>>

(***************************************************************************)
(* A refresh or the geocoding call of the record's gather returns.         *)
(***************************************************************************)
FetchReturn(l, s, ok) ==
    /\ pc[l] = "gather"
    /\ loopHeld = 0
    /\ lk[l][s].st = "fetch"
    /\ LET c == lk[l][s]
       IN  IF c.kind = "location"
           THEN LET ch == [lk[l] EXCEPT ![s] = [c EXCEPT !.st = "done",
                                                 !.val = IF ok THEN "Addr" ELSE NoneV]]
                IN  /\ IF Fetching(ch)
                       THEN /\ lk' = [lk EXCEPT ![l] = ch]
                            /\ UNCHANGED <<pc, payload, sinkCalls, loopHeld, buffer, data, log, hb,
                                           wsOpen>>
                       ELSE SubmitCreate(l, ch)
                    /\ UNCHANGED <<stateVars, orphans, consulted>>
           ELSE IF ok
           THEN LET found == Scan(c.kind, Dataset(c.kind), c.key, 2)
                    ch    == [lk[l] EXCEPT ![s] = [c EXCEPT !.st = "done", !.val = found.val]]
                IN  /\ Refreshed(c.kind)
                    /\ IF Fetching(ch)
                       THEN /\ lk' = [lk EXCEPT ![l] = ch]
                            /\ UNCHANGED <<pc, payload, sinkCalls, loopHeld, buffer, data, log, hb,
                                           wsOpen>>
                       ELSE SubmitCreate(l, ch)
                    /\ UNCHANGED <<orphans, consulted>>
           ELSE /\ PushRaised(l, [lk[l] EXCEPT ![s] = [c EXCEPT !.st = "raised"]], consulted)
                /\ RefreshFailed(c.kind)
    /\ UNCHANGED <<bootVars, sent, dateTime, variant, feed, platformTransfer, hbSent, req, rx>>

(***************************************************************************)
(* A refresh whose gather already failed returns.                          *)
(***************************************************************************)
OrphanReturn(kind, ok) ==
    /\ orphans[kind] > 0
    /\ loopHeld = 0
    /\ orphans' = [orphans EXCEPT ![kind] = @ - 1]
    /\ IF ok THEN Refreshed(kind) ELSE RefreshFailed(kind)
    /\ UNCHANGED <<bootVars, sent, dateTime, variant, feed, platformTransfer, taskVars, req, histVars>>

(***************************************************************************)
(* The Create call returns or raises in its worker thread.  A call that    *)
(* hangs is one for which this step never happens.                         *)
(***************************************************************************)
AfterCreateRetry(l, ok, lg) ==
    IF ok THEN Continue(l, buffer[l], lg, 0, consulted)
    ELSE /\ sinkCalls' = [sinkCalls EXCEPT ![l] = @ + 1]
         /\ UNCHANGED <<pc, buffer, data, lk, hb, wsOpen, payload, log, consulted, loopHeld>>

AfterCreate(l, ok, lg) == Continue(l, buffer[l], lg, 0, consulted)

CreateReturn(l, ok) ==
    /\ pc[l] = "create"
    /\ loopHeld \in {0, l}
    /\ AfterCreate(l, ok, Append(log[l], [seg |-> data[l].seg,
                                          outcome |-> IF ok THEN "create_ok" ELSE "create_failed"]))
    /\ UNCHANGED <<bootVars, sent, dateTime, variant, feed, platformTransfer, stateVars, hbSent, orphans, req, rx>>

(***************************************************************************)
(* The connection, seen from the listener.                                 *)
(***************************************************************************)
PeerClose(l, how) ==
    /\ wsOpen[l] = "open"
    /\ how \in {"closed_ok", "closed_error"}
    /\ wsOpen' = [wsOpen EXCEPT ![l] = how]
    /\ UNCHANGED <<bootVars, sent, dateTime, variant, feed, platformTransfer, stateVars, pc, hb, hbSent, buffer, data, lk,
                   payload, loopHeld, orphans, req, histVars>>

AfterCloseGiveUp(how) == IF how = "closed_ok" THEN "connecting" ELSE "returned"

AfterClose(how) == IF how = "closed_ok" THEN "connecting" ELSE "backoff"

ObserveClose(l) ==
    /\ pc[l] = "recv"
    /\ loopHeld = 0
    /\ wsOpen[l] \in {"closed_ok", "closed_error"}
    /\ pc' = [pc EXCEPT ![l] = AfterClose(wsOpen[l])]
    /\ hb' = CancelHb(l)
    /\ wsOpen' = [wsOpen EXCEPT ![l] = "none"]
    /\ UNCHANGED <<bootVars, sent, dateTime, variant, feed, platformTransfer, stateVars, hbSent, buffer, data, lk, payload,
                   loopHeld, orphans, req, histVars>>

ReconnectTimer(l) ==
    /\ pc[l] = "backoff"
    /\ loopHeld = 0
    /\ pc' = [pc EXCEPT ![l] = "connecting"]
    /\ UNCHANGED <<bootVars, sent, dateTime, variant, feed, platformTransfer, stateVars, wsOpen, hb, hbSent, buffer, data, lk,
                   payload, loopHeld, orphans, req, histVars>>

(***************************************************************************)
(* The heartbeat sub-task wakes from its sleep.                            *)
(***************************************************************************)
HeartbeatTick(l) ==
    /\ hb[l] = "live"
    /\ loopHeld = 0
    /\ hbSent[l] < MaxBeats
    /\ hbSent' = IF wsOpen[l] = "open" THEN [hbSent EXCEPT ![l] = @ + 1] ELSE hbSent
    /\ sent' = IF wsOpen[l] = "open" THEN [sent EXCEPT ![l] = Append(@, KeepaliveFrame)] ELSE sent
    /\ UNCHANGED <<bootVars, dateTime, variant, feed, platformTransfer, stateVars, pc, wsOpen, hb, buffer, data, lk,
                   payload, loopHeld, orphans, req, histVars>>

(***************************************************************************)
(* The keepalive send raises: ws.open was true when the heartbeat checked  *)
(* it, and the transport turns out dead while ws.send writes.  heartbeat() *)
(* has no try, so the exception ends the sub-task and stays in it: nothing *)
(* awaits hb_task, and cancel() in the finally does nothing to a finished  *)
(* task.                                                                   *)
(***************************************************************************)
HeartbeatSendFails(l) ==
    /\ hb[l] = "live"
    /\ loopHeld = 0
    /\ wsOpen[l] = "open"
    /\ hb' = [hb EXCEPT ![l] = "failed"]
    /\ wsOpen' = [wsOpen EXCEPT ![l] = "closed_error"]
    /\ UNCHANGED <<bootVars, sent, dateTime, variant, feed, platformTransfer, stateVars, pc, hbSent, buffer, data, lk,
                   payload, loopHeld, orphans, req, histVars>>

(***************************************************************************)
(* on_shutdown: every listener task is cancelled.                          *)
(***************************************************************************)
Shutdown ==
    /\ ~stopped
    /\ loopHeld = 0
    /\ LET hit == {l \in ws_tasks : pc[l] \notin Ended}
       IN  /\ pc' = [l \in Listeners |-> IF l \in hit THEN "cancelled" ELSE pc[l]]
           /\ hb' = [l \in Listeners |-> IF l \in hit /\ hb[l] = "live" THEN "cancelled" ELSE hb[l]]
           /\ wsOpen' = [l \in Listeners |-> IF l \in hit THEN "none" ELSE wsOpen[l]]
           /\ lk' = [l \in Listeners |-> IF l \in hit THEN NoLookups ELSE lk[l]]
    /\ ws_tasks' = {}
    /\ stopped' = TRUE
    /\ UNCHANGED <<boot, token, sent, dateTime, variant, feed, platformTransfer, stateVars, hbSent, buffer, data,
                   payload, loopHeld, orphans, req, histVars>>

(***************************************************************************)
(* The lookup API (routes.py): one request calls one lookup of services.py *)
(* and answers with its result.  `atStart` and `n` are history: how the    *)
(* mapping stood when the lookup began and the refreshes the lookup made.  *)
(***************************************************************************)
Requests == 1..MaxRequests

FreeRequest == [kind |-> "none", key |-> NoneV, st |-> "free", val |-> NoneV, n |-> 0,
                atStart |-> "none"]

ApiKeys(kind) ==
    CASE kind = "vehicle"  -> {"S1", "S9"}
      [] kind = "alarm"    -> {"3", "17", "99"}
      [] kind = "geofence" -> {"R1", "r1", "Z9"}
      [] kind = "route"    -> {"R1", "Z9"}

StandsAt(kind, key) ==
    IF Mapping(kind) = Unset THEN "unset"
    ELSE IF Mapping(kind) = <<>> THEN "empty"
    ELSE IF Scan(kind, Mapping(kind), key, 1).found THEN "held"
    ELSE "absent"

ApiLookup(i, kind, key) ==
    /\ variant = "App"
    /\ loopHeld = 0
    /\ req[i].st = "free"
    /\ \A j \in 1..(i - 1) : req[j].st /= "free"
    /\ kind \in RefKinds
    /\ key \in ApiKeys(kind)
    /\ LET f == FirstStep(kind, key)
       IN  req' = [req EXCEPT ![i] = [kind |-> kind, key |-> key, st |-> f.st, val |-> f.val,
                                      n |-> IF f.st = "fetch" THEN 1 ELSE 0,
                                      atStart |-> StandsAt(kind, key)]]
    /\ UNCHANGED <<bootVars, sent, dateTime, variant, feed, platformTransfer, stateVars, taskVars, orphans, histVars>>

ApiFetchReturn(i, ok) ==
    /\ req[i].st = "fetch"
    /\ loopHeld = 0
    /\ IF ok
       THEN /\ Refreshed(req[i].kind)
            /\ req' = [req EXCEPT ![i].st = "done",
                                  ![i].val = Scan(req[i].kind, Dataset(req[i].kind), req[i].key, 2).val]
       ELSE /\ req' = [req EXCEPT ![i].st = "raised"]
            /\ RefreshFailed(req[i].kind)
    /\ UNCHANGED <<bootVars, sent, dateTime, variant, feed, platformTransfer, taskVars, orphans, histVars>>

(***************************************************************************)
(* The platform changes the Transfer list it serves: what GetMyTracker     *)
(* answers later need not be what it answered at bootstrap.                *)
(***************************************************************************)
PlatformChanges(t) ==
    /\ t /= platformTransfer
    /\ DOMAIN t = DOMAIN platformTransfer
    /\ platformTransfer' = t
    /\ UNCHANGED <<bootVars, sent, dateTime, variant, feed, stateVars, taskVars, orphans, req, histVars>>

(***************************************************************************)
(* Initial states: the session is signed in (or the platform answered the  *)
(* sign-in without session data), the endpoints are discovered and one     *)
(* listener task per endpoint is created and has not run yet.              *)
(***************************************************************************)
Alphabet == {"#", " ", "x", "a"}

Chunks(alphabet) == UNION {[1..n -> alphabet] : n \in 1..MaxChunk}

Frames(tokens) == {<<e, "#">> : e \in tokens}

EndpointRecords == {[WssDomainName |-> "host", WssOutputPort |-> "443"],
                    [WssDomainName |-> NoneV,  WssOutputPort |-> "443"]}

InitTasks(n) ==
    /\ pc = [l \in 1..n |-> "start"]
    /\ wsOpen = [l \in 1..n |-> "none"]
    /\ hb = [l \in 1..n |-> "none"]
    /\ hbSent = [l \in 1..n |-> 0]
    /\ buffer = [l \in 1..n |-> <<>>]
    /\ data = [l \in 1..n |-> NoCurrent]
    /\ lk = [l \in 1..n |-> NoLookups]
    /\ payload = [l \in 1..n |-> NoPayload]
    /\ loopHeld = 0
    /\ rx = [l \in 1..n |-> <<>>]
    /\ log = [l \in 1..n |-> <<>>]
    /\ consulted = [l \in 1..n |-> [d |-> NoData, kinds |-> {}]]
    /\ sinkCalls = [l \in 1..n |-> 0]
    /\ sent = [l \in 1..n |-> <<>>]

Booted ==
    /\ boot = "done"
    /\ token = "Tok"
    /\ ws_tasks = DOMAIN pc
    /\ stopped = FALSE

InitState ==
    /\ alarm_types = <<>>
    /\ geofences = Unset
    /\ routes = Unset
    /\ vehicle_data \in (IF variant = "App" THEN {<<>>, PlatformTrackers} ELSE {<<>>})
    /\ transfer_endpoints = platformTransfer
    /\ orphans = [k \in RefKinds |-> 0]
    /\ req = [i \in Requests |-> FreeRequest]

Init ==
    /\ variant \in {"App", "main"}
    /\ feed = Chunks(Alphabet)
    /\ user_config \in {"Cfg", NoneV}
    /\ platformTransfer \in [1..1 -> EndpointRecords]
    /\ dateTime = PlainStamp
    /\ InitState
    /\ InitTasks(1)
    /\ Booted

Next ==
    \/ \E l \in Listeners : Start(l)
    \/ \E l \in Listeners, o \in {"ok", "refused", "send_failed"} : Connect(l, o)
    \/ \E l \in Listeners, c \in feed : Receive(l, c)
    \/ \E l \in Listeners : GatherStart(l)
    \/ \E l \in Listeners, s \in Slots, ok \in BOOLEAN : FetchReturn(l, s, ok)
    \/ \E k \in RefKinds, ok \in BOOLEAN : OrphanReturn(k, ok)
    \/ \E l \in Listeners, ok \in BOOLEAN : CreateReturn(l, ok)
    \/ \E l \in Listeners, how \in {"closed_ok", "closed_error"} : PeerClose(l, how)
    \/ \E l \in Listeners : ObserveClose(l)
    \/ \E l \in Listeners : ReconnectTimer(l)
    \/ Shutdown

Spec == Init /\ [][Next]_vars

(***************************************************************************)
(* The listener under the scheduling the code guarantees: the reconnect    *)
(* delay asyncio.sleep(5) ends, and a receive loop waiting on a closed     *)
(* connection is resumed.  Nothing makes connections succeed, the platform *)
(* answer or the sink return.                                              *)
(***************************************************************************)
InitFair ==
    /\ variant \in {"App", "main"}
    /\ feed = Frames({"a"}) \cup {<<"x">>}
    /\ user_config \in {"Cfg", NoneV}
    /\ platformTransfer \in [1..1 -> EndpointRecords]
    /\ dateTime = PlainStamp
    /\ InitState
    /\ InitTasks(1)
    /\ Booted

FairSpec ==
    /\ InitFair
    /\ [][Next]_vars
    /\ \A l \in 1..MaxEndpoints :
          /\ WF_vars(l \in Listeners /\ ReconnectTimer(l))
          /\ WF_vars(l \in Listeners /\ ObserveClose(l))

(***************************************************************************)
(* Two endpoints, each streaming whole frames of an allowed record, with   *)
(* the heartbeats running.                                                 *)
(***************************************************************************)
InitConc ==
    /\ variant \in {"App", "main"}
    /\ feed = Frames({"a"})
    /\ user_config = "Cfg"
    /\ platformTransfer = [l \in 1..MaxEndpoints |->
                              [WssDomainName |-> "host", WssOutputPort |-> "443"]]
    /\ dateTime = PlainStamp
    /\ InitState
    /\ InitTasks(MaxEndpoints)
    /\ Booted

NextConc ==
    \/ \E l \in Listeners : Start(l)
    \/ \E l \in Listeners : Connect(l, "ok")
    \/ \E l \in Listeners, c \in feed : Receive(l, c)
    \/ \E l \in Listeners : GatherStart(l)
    \/ \E l \in Listeners, s \in Slots, ok \in BOOLEAN : FetchReturn(l, s, ok)
    \/ \E k \in RefKinds, ok \in BOOLEAN : OrphanReturn(k, ok)
    \/ \E l \in Listeners, ok \in BOOLEAN : CreateReturn(l, ok)
    \/ \E l \in Listeners : HeartbeatTick(l)

SpecConc == InitConc /\ [][NextConc]_vars

(***************************************************************************)
(* The enrichment stage in detail: one listener of the App package on a    *)
(* healthy connection, fed whole frames of every kind of record, while the *)
(* lookup API is called.                                                   *)
(***************************************************************************)
InitEnrich ==
    /\ variant = "App"
    /\ feed = Frames({"a", "r", "g", "t", "d"})
    /\ user_config = "Cfg"
    /\ platformTransfer = [l \in 1..1 |-> [WssDomainName |-> "host", WssOutputPort |-> "443"]]
    /\ dateTime = PlainStamp
    /\ InitState
    /\ InitTasks(1)
    /\ Booted

NextEnrich ==
    \/ \E l \in Listeners : Start(l)
    \/ \E l \in Listeners : Connect(l, "ok")
    \/ \E l \in Listeners, c \in feed : Receive(l, c)
    \/ \E l \in Listeners : GatherStart(l)
    \/ \E l \in Listeners, s \in Slots, ok \in BOOLEAN : FetchReturn(l, s, ok)
    \/ \E k \in RefKinds, ok \in BOOLEAN : OrphanReturn(k, ok)
    \/ \E l \in Listeners, ok \in BOOLEAN : CreateReturn(l, ok)
    \/ \E i \in Requests, k \in RefKinds, key \in {"S1", "S9", "3", "99", "R1"} : ApiLookup(i, k, key)
    \/ \E i \in Requests, ok \in BOOLEAN : ApiFetchReturn(i, ok)

SpecEnrich == InitEnrich /\ [][NextEnrich]_vars

(***************************************************************************)
(* The reference cache under the lookup API alone: requests for present    *)
(* and absent keys of every kind, refreshes that succeed or fail, and a    *)
(* platform whose Transfer list may change after bootstrap.                *)
(***************************************************************************)
InitRef ==
    /\ variant = "App"
    /\ feed = Frames({"a"})
    /\ user_config = "Cfg"
    /\ platformTransfer \in [1..1 -> EndpointRecords]
    /\ dateTime = PlainStamp
    /\ InitState
    /\ InitTasks(1)
    /\ Booted

NextRef ==
    \/ \E i \in Requests, k \in RefKinds : \E key \in ApiKeys(k) : ApiLookup(i, k, key)
    \/ \E i \in Requests, ok \in BOOLEAN : ApiFetchReturn(i, ok)
    \/ \E t \in [1..1 -> EndpointRecords] : PlatformChanges(t)

SpecRef == InitRef /\ [][NextRef]_vars

(***************************************************************************)
(* One listener on a healthy connection, in either copy of the pipeline,   *)
(* whose allowed events lack a system number, lack a coordinate or carry a *)
(* coordinate that is no number.                                           *)
(***************************************************************************)
InitSlots ==
    /\ variant \in {"App", "main"}
    /\ feed = Frames({"g", "n", "e", "q"})
    /\ user_config = "Cfg"
    /\ platformTransfer = [l \in 1..1 |-> [WssDomainName |-> "host", WssOutputPort |-> "443"]]
    /\ dateTime = PlainStamp
    /\ InitState
    /\ InitTasks(1)
    /\ Booted

NextSlots ==
    \/ \E l \in Listeners : Start(l)
    \/ \E l \in Listeners : Connect(l, "ok")
    \/ \E l \in Listeners, c \in feed : Receive(l, c)
    \/ \E l \in Listeners : GatherStart(l)
    \/ \E l \in Listeners, s \in Slots, ok \in BOOLEAN : FetchReturn(l, s, ok)
    \/ \E k \in RefKinds, ok \in BOOLEAN : OrphanReturn(k, ok)
    \/ \E l \in Listeners, ok \in BOOLEAN : CreateReturn(l, ok)

SpecSlots == InitSlots /\ [][NextSlots]_vars

(***************************************************************************)
(* One listener on a healthy connection whose events carry any of the      *)
(* DateTime texts, in either copy of the pipeline.                         *)
(***************************************************************************)
InitStamp ==
    /\ variant \in {"App", "main"}
    /\ feed = Frames({"a"})
    /\ user_config = "Cfg"
    /\ platformTransfer = [l \in 1..1 |-> [WssDomainName |-> "host", WssOutputPort |-> "443"]]
    /\ dateTime \in DateTimes
    /\ InitState
    /\ InitTasks(1)
    /\ Booted

NextStamp ==
    \/ \E l \in Listeners : Start(l)
    \/ \E l \in Listeners : Connect(l, "ok")
    \/ \E l \in Listeners, c \in feed : Receive(l, c)
    \/ \E l \in Listeners : GatherStart(l)
    \/ \E l \in Listeners, s \in Slots, ok \in BOOLEAN : FetchReturn(l, s, ok)
    \/ \E k \in RefKinds, ok \in BOOLEAN : OrphanReturn(k, ok)
    \/ \E l \in Listeners, ok \in BOOLEAN : CreateReturn(l, ok)

SpecStamp == InitStamp /\ [][NextStamp]_vars

(***************************************************************************)
(* Bootstrap (main.py): sign in, discover the endpoints, then create one   *)
(* listener task per endpoint.  A listener task that bootstrap has not     *)
(* created yet stands at "unborn".  The bootstrap task is created by       *)
(* on_startup and referenced nowhere, so on_shutdown does not cancel it.   *)
(***************************************************************************)
SignInReplies == {"ok", "rejected", "undecodable", "unreachable"}

\* What resp.json() gives for each reply that has a decodable body.
SignInBody(reply) ==
    IF reply = "ok" THEN [State |-> "0", Token |-> "Tok", Data |-> "Cfg"]
    ELSE [State |-> "1", Token |-> NoneV, Data |-> NoneV]

SignInAcceptedUnchecked(reply) == reply \in {"ok", "rejected"}

SignInAccepted(reply) == reply \in {"ok", "rejected"} /\ SignInBody(reply).State = "0"

SignInReturn(reply) ==
    /\ boot = "signin"
    /\ loopHeld = 0
    /\ reply \in SignInReplies
    /\ IF SignInAccepted(reply)
       THEN /\ token' = SignInBody(reply).Token
            /\ user_config' = SignInBody(reply).Data
            /\ boot' = "tracker"
       ELSE /\ boot' = "raised"
            /\ UNCHANGED <<token, user_config>>
    /\ UNCHANGED <<ws_tasks, stopped, sent, dateTime, variant, feed, platformTransfer, transfer_endpoints,
                   vehicle_data, alarm_types, geofences, routes, taskVars, orphans, req, histVars>>

TrackerReturn(ok) ==
    /\ boot = "tracker"
    /\ loopHeld = 0
    /\ IF ok
       THEN /\ transfer_endpoints' = platformTransfer
            /\ boot' = "closing"
       ELSE /\ boot' = "raised"
            /\ UNCHANGED transfer_endpoints
    /\ UNCHANGED <<token, ws_tasks, stopped, sent, dateTime, variant, feed, platformTransfer, user_config,
                   vehicle_data, alarm_types, geofences, routes, taskVars, orphans, req, histVars>>

SpawnUntracked ==
    /\ boot = "closing"
    /\ loopHeld = 0
    /\ pc' = [l \in Listeners |-> IF l \in DOMAIN transfer_endpoints THEN "start" ELSE pc[l]]
    /\ boot' = "done"
    /\ UNCHANGED <<token, ws_tasks, stopped, sent, dateTime, variant, feed, platformTransfer, stateVars, wsOpen, hb,
                   hbSent, buffer, data, lk, payload, loopHeld, orphans, req, histVars>>

Spawn ==
    /\ boot = "closing"
    /\ loopHeld = 0
    /\ pc' = [l \in Listeners |-> IF l \in DOMAIN transfer_endpoints THEN "start" ELSE pc[l]]
    /\ ws_tasks' = ws_tasks \cup DOMAIN transfer_endpoints
    /\ boot' = "done"
    /\ UNCHANGED <<token, stopped, sent, dateTime, variant, feed, platformTransfer, stateVars, wsOpen, hb, hbSent,
                   buffer, data, lk, payload, loopHeld, orphans, req, histVars>>

(***************************************************************************)
(* The health surface: what GET / answers in the current state.            *)
(***************************************************************************)
Health == [ws_tasks |-> Cardinality(ws_tasks), platform_signed_in |-> token /= NoneV]

(***************************************************************************)
(* The process from on_startup on: nothing is signed in, no endpoint is    *)
(* known and no listener task exists.                                      *)
(***************************************************************************)
InitBoot ==
    /\ dateTime = PlainStamp
    /\ variant = "main"
    /\ feed = Frames({"a"})
    /\ user_config = NoneV
    /\ platformTransfer \in [1..MaxEndpoints -> EndpointRecords]
    /\ transfer_endpoints = <<>>
    /\ vehicle_data = <<>>
    /\ alarm_types = <<>>
    /\ geofences = Unset
    /\ routes = Unset
    /\ orphans = [k \in RefKinds |-> 0]
    /\ req = [i \in Requests |-> FreeRequest]
    /\ pc = [l \in 1..MaxEndpoints |-> "unborn"]
    /\ wsOpen = [l \in 1..MaxEndpoints |-> "none"]
    /\ hb = [l \in 1..MaxEndpoints |-> "none"]
    /\ hbSent = [l \in 1..MaxEndpoints |-> 0]
    /\ buffer = [l \in 1..MaxEndpoints |-> <<>>]
    /\ data = [l \in 1..MaxEndpoints |-> NoCurrent]
    /\ lk = [l \in 1..MaxEndpoints |-> NoLookups]
    /\ payload = [l \in 1..MaxEndpoints |-> NoPayload]
    /\ loopHeld = 0
    /\ rx = [l \in 1..MaxEndpoints |-> <<>>]
    /\ log = [l \in 1..MaxEndpoints |-> <<>>]
    /\ consulted = [l \in 1..MaxEndpoints |-> [d |-> NoData, kinds |-> {}]]
    /\ sinkCalls = [l \in 1..MaxEndpoints |-> 0]
    /\ sent = [l \in 1..MaxEndpoints |-> <<>>]
    /\ boot = "signin"
    /\ token = NoneV
    /\ ws_tasks = {}
    /\ stopped = FALSE

NextBoot ==
    \/ \E reply \in SignInReplies : SignInReturn(reply)
    \/ \E ok \in BOOLEAN : TrackerReturn(ok)
    \/ Spawn
    \/ \E l \in Listeners : Start(l)
    \/ \E l \in Listeners, o \in {"ok", "refused", "send_failed"} : Connect(l, o)
    \/ \E l \in Listeners, c \in feed : Receive(l, c)
    \/ \E l \in Listeners, ok \in BOOLEAN : CreateReturn(l, ok)
    \/ \E l \in Listeners, how \in {"closed_ok", "closed_error"} : PeerClose(l, how)
    \/ \E l \in Listeners : ObserveClose(l)
    \/ \E l \in Listeners : ReconnectTimer(l)
    \/ \E l \in Listeners : HeartbeatTick(l)
    \/ \E l \in Listeners : HeartbeatSendFails(l)
    \/ Shutdown

SpecBoot == InitBoot /\ [][NextBoot]_vars

(***************************************************************************)
(* Reference notions the claims are stated with.                           *)
(***************************************************************************)
HashIdx(s) == {i \in 1..Len(s) : s[i] = "#"}

LastHash(s) == IF HashIdx(s) = {} THEN 0 ELSE CHOOSE i \in HashIdx(s) : \A j \in HashIdx(s) : j <= i

\* The text after the last delimiter of stream s.
RefTail(s) == SubSeq(s, LastHash(s) + 1, Len(s))

AllBlank(seg) == \A i \in 1..Len(seg) : seg[i] = " "

\* The delimiter-terminated segments of stream s that are not blank, in order.
RECURSIVE RefSegments(_)
RefSegments(s) ==
    IF HashIdx(s) = {} THEN <<>>
    ELSE LET p      == LastHash(s)
             before == SubSeq(s, 1, p - 1)
             q      == LastHash(before)
             seg    == SubSeq(before, q + 1, p - 1)
         IN  RefSegments(SubSeq(s, 1, q)) \o (IF AllBlank(seg) THEN <<>> ELSE <<seg>>)

\* The segments listener l took out of its buffer on the current connection.
Extracted(l) ==
    [i \in 1..Len(log[l]) |-> log[l][i].seg]
        \o (IF data[l].d /= NoData THEN <<data[l].seg>> ELSE <<>>)

(***************************************************************************)
(* C1: on one connection the segments the listener extracts are the        *)
(* non-blank '#'-terminated segments of the concatenated chunks, whatever  *)
(* the chunk boundaries were; when the listener waits for the next chunk   *)
(* its buffer is exactly the unterminated tail of the stream.  While the   *)
(* loop is suspended in a push, the segments still in the buffer are the   *)
(* ones that remain to be extracted.                                       *)
(***************************************************************************)
C1_FramingIndependentOfChunks ==
    \A l \in Listeners :
        /\ Extracted(l) \o RefSegments(buffer[l]) = RefSegments(rx[l])
        /\ RefTail(buffer[l]) = RefTail(rx[l])
        /\ pc[l] = "recv" => /\ Extracted(l) = RefSegments(rx[l])
                             /\ buffer[l] = RefTail(rx[l])

\* A segment of several tokens was extracted, a blank one was dropped, and
\* an unterminated tail waits in the buffer.
C1_Witness ==
    \E l \in Listeners :
        /\ pc[l] = "recv"
        /\ \E i \in 1..Len(Extracted(l)) : Len(Extracted(l)[i]) >= 2
        /\ Cardinality(HashIdx(rx[l])) > Len(Extracted(l))
        /\ buffer[l] /= <<>>

(***************************************************************************)
(* C2: a parsed record whose alarm-type id, stringified and trimmed, is    *)
(* not in the allow-list is only ever filtered out: it is never the record *)
(* of a push, no lookup is called for it, it is in no Create call, and the *)
(* Create calls of a connection number at most its allowed records.        *)
(***************************************************************************)
AllowedRecord(d) == d \in EventTokens /\ StripStr(Events[d].AlarmType) \in {"17", "3", "8"}

C2_DisallowedNeverEnrichedNorDispatched ==
    \A l \in Listeners :
        /\ \A i \in 1..Len(log[l]) :
              LET d == JsonLoads(log[l][i].seg)
              IN  (d /= ParseFail /\ ~AllowedRecord(d)) => log[l][i].outcome = "filtered"
        /\ data[l].d /= NoData => AllowedRecord(data[l].d)
        /\ consulted[l].d /= NoData => AllowedRecord(consulted[l].d)
        /\ payload[l].ev /= NoData => AllowedRecord(payload[l].ev)
        /\ (\E s \in Slots : lk[l][s].st /= "idle") => AllowedRecord(data[l].d)
        /\ sinkCalls[l] <= Cardinality({i \in 1..Len(Extracted(l)) :
                                           AllowedRecord(JsonLoads(Extracted(l)[i]))})

\* A disallowed record that carries a system number, coordinates and a
\* geofence reference was filtered, and the listener went on to push the
\* next record.
C2_Witness ==
    \E l \in Listeners :
        /\ \E i \in 1..Len(log[l]) : log[l][i] = [seg |-> <<"d">>, outcome |-> "filtered"]
        /\ pc[l] = "create"

(***************************************************************************)
(* C3 (as claimed): a lookup that started on a never-fetched mapping and   *)
(* whose refresh, if any, did not fail has made exactly one refresh and    *)
(* returned a result; a lookup of a key the mapping held made no refresh   *)
(* and returned.                                                           *)
(***************************************************************************)
C3_OneRefreshOnEmptyNoneOnHit ==
    \A i \in Requests :
        LET r == req[i]
            refreshFailed == r.st = "raised" /\ r.n = 1
        IN  /\ (r.atStart \in {"empty", "unset"} /\ r.st /= "fetch" /\ ~refreshFailed)
                   => (r.st = "done" /\ r.n = 1)
            /\ r.atStart = "held" => (r.st = "done" /\ r.n = 0)

(***************************************************************************)
(* C4 (as claimed): every allowed record whose processing ended was        *)
(* dispatched: its outcome is the outcome of its Create call, whichever    *)
(* enrichment failed.                                                      *)
(***************************************************************************)
C4_PartialFailureStillDispatches ==
    \A l \in Listeners :
        \A i \in 1..Len(log[l]) :
            AllowedRecord(JsonLoads(log[l][i].seg))
                => log[l][i].outcome \in {"create_ok", "create_failed"}

(***************************************************************************)
(* The choice of the related-entity lookup, as the claim C7 describes it:  *)
(* push_to_soap calls the route lookup, and not the geofence lookup,       *)
(* exactly for a record of alarm type "17" that references a Route with a  *)
(* non-empty id; it calls the geofence lookup, and not the route lookup,   *)
(* exactly for any other record that references a SafeZone with a          *)
(* non-empty id; for every other record it calls neither.  A refresh of    *)
(* the gather is a refresh of a lookup that was called.                    *)
(***************************************************************************)
RefersRoute(d) ==
    /\ StripStr(Events[d].AlarmType) = "17"
    /\ Events[d].RelatedTable = "Route"
    /\ Events[d].RelatedID \notin {NoneV, ""}

RefersSafeZone(d) ==
    /\ ~RefersRoute(d)
    /\ Events[d].RelatedTable = "SafeZone"
    /\ Events[d].RelatedID \notin {NoneV, ""}

RelatedLookupChosen ==
    \A l \in Listeners :
        LET d == consulted[l].d
            k == consulted[l].kinds
        IN  /\ (d /= NoData /\ variant = "App") =>
                  /\ ("route" \in k) = RefersRoute(d)
                  /\ ("geofence" \in k) = RefersSafeZone(d)
            /\ \A s \in Slots : lk[l][s].st /= "idle" => lk[l][s].kind \in k

(***************************************************************************)
(* C7 (as claimed): the related-entity lookup is chosen as above, and for  *)
(* a route-deviation record the name is resolved through the Route         *)
(* mapping: once the lookups of the record are over, the record goes out   *)
(* with the name the Route mapping gives for its id, or with none when the *)
(* mapping has no such route.                                              *)
(***************************************************************************)
RouteNames == {PlatformRoutes[i].RouteName : i \in 1..Len(PlatformRoutes)} \cup {NoneV}

C7_RouteNameThroughRouteMapping ==
    /\ RelatedLookupChosen
    /\ \A l \in Listeners :
          LET d == consulted[l].d
          IN  (d /= NoData /\ variant = "App" /\ RefersRoute(d) /\ pc[l] /= "gather") =>
                  /\ payload[l].ev = d
                  /\ payload[l].Geo_fence_Name \in RouteNames

(***************************************************************************)
(* C5 (as claimed): a listener task has no terminal state: it is never     *)
(* ended unless it was cancelled.                                          *)
(***************************************************************************)
C5_NoTerminalState ==
    \A l \in Listeners : pc[l] \notin {"returned", "raised"}

(***************************************************************************)
(* C5 (amended): a listener task that passed its start-up checks never     *)
(* ends on its own, it leaves the reconnect loop only by cancellation; and *)
(* after every connection-level fault it meets (a failed connect or first  *)
(* send, a connection found closed by the receive loop) it comes back to   *)
(* the connect call, unless it is cancelled first.                         *)
(***************************************************************************)
InLoop == {"connecting", "recv", "push", "gather", "create", "backoff"}

Faulted(l) ==
    /\ l \in Listeners
    /\ \/ pc[l] = "backoff"
       \/ pc[l] = "recv" /\ wsOpen[l] \in {"closed_ok", "closed_error"}

C5_ReconnectsUntilCancelled ==
    /\ [][\A l \in Listeners : pc[l] \in InLoop => pc'[l] \in InLoop \cup {"cancelled"}]_vars
    /\ \A l \in 1..MaxEndpoints :
          Faulted(l) ~> (l \in Listeners /\ pc[l] \in {"connecting", "cancelled"})

\* A connection that had dispatched a record was lost and the listener is
\* connected again, waiting for the first chunk of the new connection.
C5_Witness ==
    \E l \in Listeners :
        /\ pc[l] = "recv"
        /\ wsOpen[l] = "open"
        /\ rx[l] = <<>>
        /\ payload[l].ev /= NoData

(***************************************************************************)
(* C6: when the listener handles the loss of a connection, every complete  *)
(* message the connection delivered has been processed to its end (an      *)
(* allowed record has the outcome of its Create call, or of the exception  *)
(* its enrichment raised), none is in progress, and every Create call made *)
(* for them has returned; the fragment left in the buffer stays out of the *)
(* next connection: a new connection starts with an empty buffer and       *)
(* nothing extracted.                                                      *)
(***************************************************************************)
CreateOutcomes(l) == {i \in 1..Len(log[l]) : log[l][i].outcome \in {"create_ok", "create_failed"}}

ParseFailureLogged(l) ==
    \E i \in (Len(log[l]) + 1)..Len(log'[l]) : JsonLoads(log'[l][i].seg) = ParseFail

C8_ParseFailureKeepsConnection ==
    [][\A l \in Listeners :
          (Len(log'[l]) > Len(log[l]) /\ ParseFailureLogged(l)) =>
              /\ \A i \in (Len(log[l]) + 1)..Len(log'[l]) :
                    JsonLoads(log'[l][i].seg) = ParseFail => log'[l][i].outcome = "parse_error"
              /\ pc'[l] \in {"recv", "push", "create"}
              /\ wsOpen'[l] = wsOpen[l]
              /\ hb'[l] = hb[l]
              /\ RefTail(buffer'[l]) = RefTail(rx'[l])
              /\ pc'[l] = "recv" => [i \in 1..Len(log'[l]) |-> log'[l][i].seg] = RefSegments(rx'[l])
      ]_vars

\* A segment failed to parse, a later segment of the same connection was
\* dispatched, and the listener waits for the next chunk on the open
\* connection.
C8_Witness ==
    \E l \in Listeners :
        /\ pc[l] = "recv"
        /\ wsOpen[l] = "open"
        /\ \E i, j \in 1..Len(log[l]) :
              /\ i < j
              /\ log[l][i].outcome = "parse_error"
              /\ log[l][j].outcome = "create_ok"

(***************************************************************************)
(* C9: on a connection the Create calls made are one per record whose      *)
(* Create returned or failed, plus the one in progress; the step in which  *)
(* a Create fails logs the failure, leaves the listener in the receive     *)
(* loop with its connection and heartbeat as they were, and goes on with   *)
(* the rest of the buffer.                                                 *)
(***************************************************************************)
C9_FailedCreateNotRetried ==
    /\ [](\A l \in Listeners :
             pc[l] /= "cancelled" =>
                 sinkCalls[l] = Cardinality(CreateOutcomes(l)) + (IF pc[l] = "create" THEN 1 ELSE 0))
    /\ [][\A l \in Listeners :
             (/\ pc[l] = "create"
              /\ Len(log'[l]) > Len(log[l])
              /\ log'[l][Len(log[l]) + 1].outcome = "create_failed") =>
                 /\ pc'[l] \in {"recv", "push", "create"}
                 /\ wsOpen'[l] = wsOpen[l]
                 /\ hb'[l] = hb[l]
                 /\ sinkCalls'[l] = sinkCalls[l] + (IF pc'[l] = "create" THEN 1 ELSE 0)
                 /\ Extracted(l)' \o RefSegments(buffer'[l]) = RefSegments(rx[l])
      ]_vars

\* A Create failed, the next record of the connection was dispatched, and
\* the listener waits for the next chunk on the open connection.
C9_Witness ==
    \E l \in Listeners :
        /\ pc[l] = "recv"
        /\ wsOpen[l] = "open"
        /\ Len(log[l]) >= 2
        /\ log[l][1].outcome = "create_failed"
        /\ log[l][2].outcome = "create_ok"
        /\ sinkCalls[l] = 2

(***************************************************************************)
(* C10: while the Create call of one listener has not returned, every      *)
(* other listener can take its next step, whichever it is (receive a       *)
(* chunk, start its lookups, take a lookup's answer, take its own Create's *)
(* result), and every live heartbeat, that listener's own included, can    *)
(* send its keepalive.                                                     *)
(***************************************************************************)
CanStep(l) ==
    /\ (pc[l] = "connecting") => ENABLED Connect(l, "ok")
    /\ (pc[l] = "recv" /\ wsOpen[l] = "open" /\ Len(rx[l]) + 2 <= MaxStream)
           => ENABLED Receive(l, <<"a", "#">>)
    /\ (pc[l] = "push") => ENABLED GatherStart(l)
    /\ (pc[l] = "gather") => \E s \in Slots : ENABLED FetchReturn(l, s, TRUE)
    /\ (pc[l] = "create") => ENABLED CreateReturn(l, TRUE)

CanBeat(l) == (hb[l] = "live" /\ hbSent[l] < MaxBeats) => ENABLED HeartbeatTick(l)

C10_SlowSinkStallsNoOtherListener ==
    \A k \in Listeners :
        pc[k] = "create" =>
            /\ \A l \in Listeners \ {k} : CanStep(l)
            /\ \A l \in Listeners : CanBeat(l)

\* The first Create of listener k has not returned, and meanwhile another
\* listener has a record dispatched and its heartbeat has sent a keepalive.
C10_Witness ==
    \E k, l \in Listeners :
        /\ k /= l
        /\ pc[k] = "create" /\ sinkCalls[k] = 1 /\ log[k] = <<>>
        /\ \E i \in 1..Len(log[l]) : log[l][i].outcome = "create_ok"
        /\ hbSent[l] > 0

(***************************************************************************)
(* C11: within one listener the records are handled in the order of their  *)
(* frames on the stream, one at a time: the segments handled so far, the   *)
(* one in progress last, are the first non-blank segments of the stream in *)
(* stream order; a Create call is made for the record in progress and for  *)
(* no other; and the step that takes up the next segment or goes back to   *)
(* waiting first records the final outcome of the record in progress.      *)
(***************************************************************************)
FinalOutcomes == {"create_ok", "create_failed", "enrich_error", "not_pushed"}

C11_DispatchInArrivalOrder ==
    /\ [](\A l \in Listeners :
             /\ Len(Extracted(l)) <= Len(RefSegments(rx[l]))
             /\ Extracted(l) = SubSeq(RefSegments(rx[l]), 1, Len(Extracted(l)))
             /\ pc[l] \in {"push", "gather", "create"} => data[l].d /= NoData
             /\ pc[l] = "create" => payload[l].ev = data[l].d)
    /\ [][\A l \in Listeners :
             /\ (data[l].d /= NoData /\ (data'[l] /= data[l] \/ log'[l] /= log[l])) =>
                   /\ pc'[l] /= "cancelled"
                   /\ Len(log'[l]) > Len(log[l])
                   /\ SubSeq(log'[l], 1, Len(log[l])) = log[l]
                   /\ log'[l][Len(log[l]) + 1].seg = data[l].seg
                   /\ log'[l][Len(log[l]) + 1].outcome \in FinalOutcomes
             /\ (sinkCalls'[l] > sinkCalls[l]) =>
                   /\ sinkCalls'[l] = sinkCalls[l] + 1
                   /\ pc'[l] = "create"
                   /\ payload'[l].ev = data'[l].d
                   /\ data'[l].seg = RefSegments(rx'[l])[Len(log'[l]) + 1]
      ]_vars

\* The first record of the connection was dispatched, the Create call of
\* the second is in progress, and more of the stream waits in the buffer.
C11_Witness ==
    \E l \in Listeners :
        /\ pc[l] = "create"
        /\ Len(log[l]) = 1
        /\ log[l][1].outcome = "create_ok"
        /\ sinkCalls[l] = 2
        /\ buffer[l] /= <<>>

(***************************************************************************)
(* C12 (as claimed): whenever a task reads a reference mapping it finds    *)
(* either the empty mapping (never fetched) or the complete dataset of one *)
(* fetch: every lookup that began found its mapping empty, holding the key *)
(* or not holding it, and the mapping of a lookup that a record's gather   *)
(* runs is empty or is the dataset the platform serves for its kind.       *)
(***************************************************************************)
C12_ReaderSeesEmptyOrOneSnapshot ==
    /\ \A i \in Requests : req[i].st /= "free" => req[i].atStart \in {"empty", "held", "absent"}
    /\ \A l \in Listeners, s \in Slots :
          lk[l][s].kind \in RefKinds => Mapping(lk[l][s].kind) \in {<<>>, Dataset(lk[l][s].kind)}

C14_ShutdownStopsEveryListener ==
    stopped => \A l \in Listeners :
                   /\ pc[l] \in Ended \cup {"unborn"}
                   /\ hb[l] /= "live"

(***************************************************************************)
(* C15 (as claimed): the listener count of the health surface is the       *)
(* number of listener tasks that were created and have neither returned,   *)
(* failed nor been cancelled, and its signed-in flag is true exactly when  *)
(* a sign-in has succeeded (stored the session).                           *)
(***************************************************************************)
ActiveListeners == {l \in Listeners : pc[l] \notin Ended \cup {"unborn"}}

C15_HealthCountsActiveListeners ==
    /\ Health.ws_tasks = Cardinality(ActiveListeners)
    /\ Health.platform_signed_in = (user_config /= NoneV)

(***************************************************************************)
(* C15 (amended): the listener count of the health surface is the number   *)
(* of listener tasks bootstrap has created since the last shutdown,        *)
(* whether they still run or have ended: it grows by the tasks a step      *)
(* creates, goes to zero when on_shutdown runs, and changes in no other    *)
(* step.  The signed-in flag is false until a sign-in succeeds and true    *)
(* from then on.                                                           *)
(***************************************************************************)
CreatedListeners == {l \in Listeners : pc[l] /= "unborn"}

C15_HealthCountsCreatedListeners ==
    /\ [](/\ ~stopped => Health.ws_tasks = Cardinality(CreatedListeners)
          /\ boot = "signin" => ~Health.platform_signed_in
          /\ boot \in {"tracker", "closing", "done"} => Health.platform_signed_in)
    /\ [][/\ Health.ws_tasks' =
                IF stopped' /\ ~stopped THEN 0
                ELSE Health.ws_tasks + Cardinality(CreatedListeners' \ CreatedListeners)
          /\ Health.platform_signed_in' /= Health.platform_signed_in =>
                (boot = "signin" /\ boot' = "tracker" /\ Health.platform_signed_in')
      ]_vars

\* A listener task has ended on its own (its endpoint has no host) and the
\* health surface still counts it.
C15_Witness ==
    /\ ~stopped
    /\ \E l \in Listeners : pc[l] = "returned"
    /\ Health.ws_tasks = Cardinality(Listeners)
    /\ Health.platform_signed_in

(***************************************************************************)
(* C16 (as claimed): the timestamp slot of every outbound record holds the *)
(* date-time parsed from the event's DateTime: the instant the text names  *)
(* when it is well formed, the same for the form with a space and the form *)
(* with a "T", and nothing when the text is missing, empty or malformed.   *)
(***************************************************************************)
WellFormed(v) ==
    /\ v.kind = "str"
    /\ v.date \in ValidDates
    /\ v.time \in ValidTimes
    /\ (v.sep = " " /\ v.tail = "") \/ (v.sep = "T" /\ v.tail \in {"", "Z"})

RefInstant(v) == IF WellFormed(v) THEN Instant(v.date, v.time) ELSE NoStamp

C16_TimestampSlotIsParsedInstant ==
    \A l \in Listeners :
        payload[l].ev /= NoData =>
            IF WellFormed(dateTime)
            THEN payload[l].Date_x0026_Time = RefInstant(dateTime)
            ELSE Falsy(payload[l].Date_x0026_Time)


(***************************************************************************)
(* C17: whenever a listener leaves Streaming, whether through an I/O       *)
(* error, an unexpected close or a normal close, it waits the fixed        *)
(* reconnect delay before its next connection attempt: a step out of the   *)
(* receive loop never leads straight to a connection attempt.  ws.py       *)
(* sleeps only in its except clause, and a normal close ends `async for`   *)
(* without an exception, so the while loop connects again at once.         *)
(***************************************************************************)
C17_DelayBeforeEveryReconnect ==
    [][\A l \in Listeners :
          (pc[l] \in Streaming /\ pc'[l] \notin Streaming)
              => pc'[l] \in {"backoff", "cancelled"}]_vars


(***************************************************************************)
(* C18: a listener's heartbeat sub-task is live only while its connection  *)
(* is Streaming.  Whenever the receive loop has been left, towards the     *)
(* reconnect delay, a new connection attempt or the end of the task, the   *)
(* heartbeat is no longer live, so a new connection never starts a second  *)
(* heartbeat beside a live one.                                            *)
(***************************************************************************)
C18_HeartbeatLiveOnlyWhileStreaming ==
    \A l \in Listeners :
        /\ hb[l] = "live" => (pc[l] \in Streaming /\ wsOpen[l] /= "none")
        /\ pc[l] \in {"connecting", "backoff"} \cup Ended => hb[l] /= "live"

(***************************************************************************)
(* The case of C18: a heartbeat that had sent a keepalive was cancelled    *)
(* when its connection was lost, and the listener waits to reconnect.      *)
(***************************************************************************)
C18_Witness ==
    \E l \in Listeners : hb[l] = "cancelled" /\ pc[l] = "backoff" /\ hbSent[l] > 0


(***************************************************************************)
(* C19: however the closing of a connection interleaves with the heartbeat *)
(* timer, a keepalive send on a dead connection never ends the heartbeat   *)
(* sub-task with an exception nobody handles: the open check prevents the  *)
(* send or the failure is caught.  heartbeat() checks ws.open and catches  *)
(* nothing, so a send that fails after the check ends the sub-task with    *)
(* its exception.                                                          *)
(***************************************************************************)
C19_KeepaliveFailureNeverUnhandled ==
    \A l \in Listeners : hb[l] /= "failed"


(***************************************************************************)
(* C20: on every connection, the first and each reconnect, exactly one     *)
(* authentication frame is sent, and it is sent before the heartbeat       *)
(* sub-task starts, before any keepalive and before any received message   *)
(* is processed: whenever the connection streams, has a heartbeat, has     *)
(* sent a keepalive or has received anything, the frames it sent begin     *)
(* with the authentication frame and hold no second one.                   *)
(***************************************************************************)
C20_OneAuthFrameFirstOnEveryConnection ==
    \A l \in Listeners :
        (\/ pc[l] \in Streaming
         \/ hb[l] = "live"
         \/ rx[l] /= <<>>
         \/ log[l] /= <<>>
         \/ \E i \in 1..Len(sent[l]) : sent[l][i] = KeepaliveFrame)
            => /\ sent[l] /= <<>>
               /\ sent[l][1] = AuthFrame
               /\ \A i \in 2..Len(sent[l]) : sent[l][i] = KeepaliveFrame

(***************************************************************************)
(* The case of C20: a connection that has authenticated, then sent a       *)
(* keepalive, and has processed a received message.                        *)
(***************************************************************************)
C20_Witness ==
    \E l \in Listeners :
        /\ pc[l] \in Streaming
        /\ sent[l] = <<AuthFrame, KeepaliveFrame>>
        /\ log[l] /= <<>>


(***************************************************************************)
(* The key equality of the data model: a zone id is compared without       *)
(* regard to letter case, every other key as the given string.  `Served`   *)
(* is the entry of the platform dataset a key names, if any.               *)
(***************************************************************************)
RawKey(kind, e) ==
    CASE kind = "vehicle"  -> e.SystemNo
      [] kind = "alarm"    -> e.AlarmTypeID
      [] kind = "geofence" -> e.ZoneID
      [] kind = "route"    -> e.RouteID

KeyEq(kind, a, b) == IF kind = "geofence" THEN Lower(a) = Lower(b) ELSE a = b

Served(kind, key) == {j \in 1..Len(Dataset(kind)) : KeyEq(kind, RawKey(kind, Dataset(kind)[j]), key)}

(***************************************************************************)
(* C21: lookups are neither deduplicated nor negatively cached.  Every     *)
(* lookup of a key that the platform dataset does not hold, whether it     *)
(* runs alone, after or beside another, performs its own refresh of its    *)
(* kind: k such lookups cause k refreshes.                                 *)
(***************************************************************************)
C21_EveryMissRefreshesItself ==
    \A i \in Requests :
        (req[i].st /= "free" /\ Served(req[i].kind, req[i].key) = {}) => req[i].n = 1

(***************************************************************************)
(* What holds of C21: for the two mappings State declares, vehicles and    *)
(* alarm types, every lookup of an absent key has made its own refresh.    *)
(***************************************************************************)
MissRefreshesDeclaredKinds ==
    \A i \in Requests :
        (/\ req[i].st /= "free"
         /\ req[i].kind \in {"vehicle", "alarm"}
         /\ Served(req[i].kind, req[i].key) = {}) => req[i].n = 1


(***************************************************************************)
(* C22: for an allowed event without a system number, absent or empty, the *)
(* enrichment performs no vehicle lookup, hence no vehicle refresh on the  *)
(* platform, and the vehicle-name slot of the outbound record is empty.    *)
(* push_to_soap of services.py calls get_vehicle_by_system_no whatever the *)
(* system number is.                                                       *)
(***************************************************************************)
C22_NoVehicleLookupWithoutSystemNo ==
    variant = "App" =>
        \A l \in Listeners :
            LET d == consulted[l].d
            IN  (d /= NoData /\ AllowedRecord(d) /\ ~Truthy(Events[d].SystemNo))
                    => /\ "vehicle" \notin consulted[l].kinds
                       /\ lk[l]["vehicle"].st = "idle"
                       /\ payload[l].ev = d => payload[l].Vehicle_No = NoneV


(***************************************************************************)
(* C23: the geocoding collaborator is called for an allowed event only if  *)
(* its latitude and its longitude are both present and numeric; for an     *)
(* event with a missing or non-numeric coordinate no geocoding call is     *)
(* made and the location slot of the outbound record is empty.             *)
(* push_to_soap of services.py tests only `lat and lon`.                   *)
(***************************************************************************)
C23_GeocodingOnlyForNumericCoordinates ==
    variant = "App" =>
        \A l \in Listeners :
            LET d == consulted[l].d
            IN  (/\ d /= NoData
                 /\ AllowedRecord(d)
                 /\ ~(IsNumeric(Events[d].Latitude) /\ IsNumeric(Events[d].Longitude)))
                    => /\ "location" \notin consulted[l].kinds
                       /\ lk[l]["location"].st = "idle"
                       /\ payload[l].ev = d => payload[l].Current_Location = NoneV

(***************************************************************************)
(* What holds of C23: an event with a missing coordinate, absent or empty, *)
(* causes no geocoding call and leaves the location slot empty.            *)
(***************************************************************************)
NoGeocodingWithoutCoordinate ==
    variant = "App" =>
        \A l \in Listeners :
            LET d == consulted[l].d
            IN  (/\ d /= NoData
                 /\ AllowedRecord(d)
                 /\ ~(Truthy(Events[d].Latitude) /\ Truthy(Events[d].Longitude)))
                    => /\ "location" \notin consulted[l].kinds
                       /\ lk[l]["location"].st = "idle"
                       /\ payload[l].ev = d => payload[l].Current_Location = NoneV


(***************************************************************************)
(* C24: the discovered endpoints held in session state are written once,   *)
(* by endpoint discovery during bootstrap, and no later operation changes  *)
(* them, in particular no reference refresh that a lookup or an enrichment *)
(* triggers.  In the App package the vehicle refresh is get_my_tracker,    *)
(* the discovery call itself, which assigns the endpoints again.           *)
(***************************************************************************)
C24_EndpointsUnchangedAfterBootstrap ==
    [][boot = "done" => transfer_endpoints' = transfer_endpoints]_vars


(***************************************************************************)
(* C25: for geofences and routes, a lookup whose key matches an entry of   *)
(* the platform dataset under the key equality of the data model (zone id  *)
(* without regard to letter case, route id as the given string) returns    *)
(* that entry's name, whether it finds the entry before or after its       *)
(* refresh.  A lookup whose refresh failed has no dataset to answer from   *)
(* and is not covered.                                                     *)
(***************************************************************************)
C25_MatchingKeyReturnsName ==
    \A i \in Requests :
        (/\ req[i].kind \in {"geofence", "route"}
         /\ req[i].st = "done" \/ (req[i].st = "raised" /\ req[i].n = 0)
         /\ Served(req[i].kind, req[i].key) /= {})
            => /\ req[i].st = "done"
               /\ \E j \in Served(req[i].kind, req[i].key) :
                      req[i].val = EntryValue(req[i].kind, Dataset(req[i].kind)[j], 2)


(***************************************************************************)
(* C26: for a fixed alarm-type dataset the display name the alarm-type     *)
(* lookup returns for an id is the same whether the lookup is served from  *)
(* the cached mapping or after a refresh: any two answered lookups of one  *)
(* id return the same name.  The scan after the refresh renames two        *)
(* labels, the scan before it only one.                                    *)
(***************************************************************************)
C26_SameNameOnHitAndMiss ==
    \A i, j \in Requests :
        (/\ req[i].kind = "alarm" /\ req[i].st = "done"
         /\ req[j].kind = "alarm" /\ req[j].st = "done"
         /\ req[i].key = req[j].key)
            => req[i].val = req[j].val


(***************************************************************************)
(* C27: when a reference refresh fails, on a non-success State or a reply  *)
(* that cannot be decoded, the mapping of its kind is left exactly as it   *)
(* was and no other mapping or session field is modified.                  *)
(***************************************************************************)
C27_FailedRefreshChangesNothing ==
    [][(\E i \in Requests : req[i].st = "fetch" /\ req'[i].st = "raised")
          => UNCHANGED <<stateVars, token, ws_tasks>>]_vars

(***************************************************************************)
(* The case of C27: a lookup of a key the filled mapping does not hold     *)
(* went to the platform, its refresh failed, and the mapping is still      *)
(* filled.                                                                 *)
(***************************************************************************)
C27_Witness ==
    \E i \in Requests :
        /\ req[i].st = "raised"
        /\ req[i].n = 1
        /\ req[i].atStart = "absent"
        /\ Mapping(req[i].kind) /= <<>>


(***************************************************************************)
(* C28: in either copy of push_to_soap the Latitude slot of the outbound   *)
(* record carries the event's latitude and the Longitude slot its          *)
(* longitude, each coerced to decimal, so the two copies agree on both     *)
(* slots for the same event.  main.py fills each slot from the other       *)
(* coordinate.                                                             *)
(***************************************************************************)
C28_CoordinateSlotsCarryOwnCoordinate ==
    \A l \in Listeners :
        payload[l].ev /= NoData
            => /\ payload[l].Latitude = ToDecimal(Events[payload[l].ev].Latitude)
               /\ payload[l].Longitude = ToDecimal(Events[payload[l].ev].Longitude)

(***************************************************************************)
(* What holds of C28: the record services.py builds carries each           *)
(* coordinate in its own slot.                                             *)
(***************************************************************************)
AppCoordinateSlots ==
    variant = "App" => C28_CoordinateSlotsCarryOwnCoordinate

====
